---- MODULE Spec2Model ----
(***************************************************************************)
(* Model of src/main.js: the reveal observer, the AnimatedBg particle      *)
(* field, the focus controller (setFocus / removeFocus and the click       *)
(* wiring) and the scroll carousel.                                        *)
(*                                                                         *)
(* Every event handler of the page runs to completion before the next one  *)
(* starts (one event loop), so each handler is one action.                 *)
(*                                                                         *)
(* Coordinates are fixed-point: one unit is 1/Scale of a CSS pixel.        *)
(***************************************************************************)
EXTENDS Integers, Sequences, FiniteSets, TLC

VARIABLES
    focused,             \* the sections whose classList contains 'focused'
    hasFocus,            \* body.classList contains 'has-focus'
    currentEffect,       \* the AnimatedBg instance held by currentEffect, 0 for null
    fields,              \* every AnimatedBg instance constructed so far, by instance number
    rafPending,          \* the browser's map of animation frame callbacks
    nextHandle,          \* the handle the next requestAnimationFrame returns
    mousemoveListeners,  \* instances whose moveHandler is registered on window
    resizeListeners,     \* instances whose resizeHandler is registered on window
    isVisible,           \* reveal elements whose classList contains 'is-visible'
    observed,            \* the observer's observation targets
    addCalls,            \* per reveal element, the classList.add('is-visible') calls made
    lastEvent            \* the handler that ran last and what it saw on entry

vars == <<focused, hasFocus, currentEffect, fields, rafPending, nextHandle,
          mousemoveListeners, resizeListeners, isVisible, observed, addCalls,
          lastEvent>>

progVars == <<focused, hasFocus, currentEffect, fields, rafPending, nextHandle,
              mousemoveListeners, resizeListeners>>

revealVars == <<isVisible, observed, addCalls>>

-----------------------------------------------------------------------------
(* Bounds of the model *)

NumSections == 3      \* <section> elements of the document, in document order
MaxFields == 2        \* AnimatedBg instances constructed in one run
MaxHandles == 4       \* requestAnimationFrame calls in one run
NumParticles == 1     \* particles of a field (the code seeds 40 independent ones)
NumElements == 3      \* elements matched by the reveal selector
MaxBatch == 2         \* entries in one intersection notification
InnerHeight == 800    \* window.innerHeight
RandDen == 800        \* Math.random() yields a multiple of 1/RandDen in [0, 1)

(* Program constants *)

Scale == 50           \* 1 / 0.02: the pull of line 121 is one unit per pixel of offset
AttractRadius == 150  \* pixels
Infinity == -1        \* stands for the initial minDistance, above every distance

Sections == 1 .. NumSections
Elements == 1 .. NumElements
Background == 0       \* a click target outside every section

Abs(n) == IF n < 0 THEN -n ELSE n

-----------------------------------------------------------------------------
(* The program state as one value, so that a handler is the composition of *)
(* the functions it calls.                                                 *)

St ==
    [focused |-> focused, hasFocus |-> hasFocus, currentEffect |-> currentEffect,
     fields |-> fields, rafPending |-> rafPending, nextHandle |-> nextHandle,
     mousemoveListeners |-> mousemoveListeners, resizeListeners |-> resizeListeners]

Commit(S) ==
    /\ focused' = S.focused
    /\ hasFocus' = S.hasFocus
    /\ currentEffect' = S.currentEffect
    /\ fields' = S.fields
    /\ rafPending' = S.rafPending
    /\ nextHandle' = S.nextHandle
    /\ mousemoveListeners' = S.mousemoveListeners
    /\ resizeListeners' = S.resizeListeners

NoPre == [particles |-> <<>>, width |-> 0, height |-> 0, mouse |-> <<>>]

Event(type, target) ==
    [type |-> type, target |-> target, wasFocused |-> FALSE, hadFocus |-> hasFocus,
     docRan |-> FALSE, destroyed |-> FALSE, tie |-> FALSE, batch |-> <<>>,
     pre |-> NoPre]

-----------------------------------------------------------------------------
(* Browser: animation frame callbacks *)

RequestAnimationFrame(S, i) ==
    [S EXCEPT !.rafPending = @ \cup {[handle |-> S.nextHandle, inst |-> i]},
              !.nextHandle = @ + 1,
              !.fields[i].animationId = S.nextHandle]

CancelAnimationFrame(S, id) ==
    [S EXCEPT !.rafPending = {r \in @ : r.handle # id}]

-----------------------------------------------------------------------------
(* AnimatedBg *)

\* resize(): the canvas takes the container's offsetWidth x offsetHeight.
Resize(S, i, size) ==
    [S EXCEPT !.fields[i].width = size[1], !.fields[i].height = size[2]]

\* One particle of initParticles(), from its five Math.random() draws
\* (numerators over RandDen), on a canvas of w x h pixels.
SeedParticle(r, w, h) ==
    [x    |-> (r.x * w * Scale) \div RandDen,
     y    |-> (r.y * h * Scale) \div RandDen,
     vx   |-> ((2 * r.vx - RandDen) * 3 * Scale) \div (4 * RandDen),
     vy   |-> ((2 * r.vy - RandDen) * 3 * Scale) \div (4 * RandDen),
     size |-> (r.size * 2 * Scale) \div RandDen + Scale]

InitParticles(S, i, rnd) ==
    [S EXCEPT !.fields[i].particles =
        [k \in 1 .. Len(rnd) |->
            SeedParticle(rnd[k], S.fields[i].width, S.fields[i].height)]]

AddEvents(S, i) ==
    [S EXCEPT !.mousemoveListeners = @ \cup {i},
              !.resizeListeners = @ \cup {i}]

\* destroy() without the removal of the resize listener
Destroy_KeepResize(S, i) ==
    LET f == S.fields[i]
        S1 == CancelAnimationFrame(S, f.animationId)
    IN  [S1 EXCEPT !.mousemoveListeners = @ \ {i},
                   !.fields[i].parentNode = 0,
                   !.fields[i].destroyCalls = @ + 1]

\* destroy() without cancelAnimationFrame
Destroy_NoCancel(S, i) ==
    [S EXCEPT !.mousemoveListeners = @ \ {i},
              !.resizeListeners = @ \ {i},
              !.fields[i].parentNode = 0,
              !.fields[i].destroyCalls = @ + 1]

Destroy(S, i) ==
    LET f == S.fields[i]
        S1 == CancelAnimationFrame(S, f.animationId)
    IN  [S1 EXCEPT !.mousemoveListeners = @ \ {i},
                   !.resizeListeners = @ \ {i},
                   !.fields[i].parentNode = 0,
                   !.fields[i].destroyCalls = @ + 1]

\* The bounce tests of lines 104-105 with >= for >
OutOfBounds_Inclusive(v, max) == v < 0 \/ v >= max

OutOfBounds(v, max) == v < 0 \/ v > max

\* dx * 0.2 for dx * 0.02
Pull_Strong(d) == IF d >= 0 THEN (10 * d) \div Scale ELSE -((-10 * d) \div Scale)

\* dx * 0.02, rounded toward zero to the fixed-point grid
Pull(d) == IF d >= 0 THEN d \div Scale ELSE -((-d) \div Scale)

\* The test of line 112 with <= for <
Near_Inclusive(dx, dy) ==
    dx * dx + dy * dy <= (AttractRadius * Scale) * (AttractRadius * Scale)

\* distance < 150, on squares (Math.sqrt is monotone)
Near(dx, dy) ==
    dx * dx + dy * dy < (AttractRadius * Scale) * (AttractRadius * Scale)

\* Math.sqrt(n) rounded down to the fixed-point grid, for lo * lo <= n < hi * hi
RECURSIVE SqrtBetween(_, _, _)
SqrtBetween(n, lo, hi) ==
    IF hi - lo <= 1
    THEN lo
    ELSE LET mid == (lo + hi) \div 2
         IN  IF mid * mid <= n
             THEN SqrtBetween(n, mid, hi)
             ELSE SqrtBetween(n, lo, mid)

\* 150 pixels in units
Radius == AttractRadius * Scale

\* The alpha of strokeStyle, 1 - distance / 150, as a numerator over Radius;
\* it is computed only inside the test distance < 150
Alpha(dx, dy) == Radius - SqrtBetween(dx * dx + dy * dy, 0, Radius)

\* The body of the forEach of animate() for one particle. line is the alpha
\* (over Radius) of the attraction line stroked for it, or -1 when none is
\* stroked.
UpdateParticle(p, w, h, mouse) ==
    LET x1 == p.x + p.vx
        y1 == p.y + p.vy
        vx1 == IF OutOfBounds(x1, w * Scale) THEN -p.vx ELSE p.vx
        vy1 == IF OutOfBounds(y1, h * Scale) THEN -p.vy ELSE p.vy
        known == mouse # <<>>
        dx == IF known THEN mouse[1] - x1 ELSE 0
        dy == IF known THEN mouse[2] - y1 ELSE 0
        near == known /\ Near(dx, dy)
    IN  [p |-> [x |-> IF near THEN x1 + Pull(dx) ELSE x1,
                y |-> IF near THEN y1 + Pull(dy) ELSE y1,
                vx |-> vx1, vy |-> vy1, size |-> p.size],
         line |-> IF near THEN Alpha(dx, dy) ELSE -1]

\* animate() without the requestAnimationFrame of line 132
Animate_NoReschedule(S, i) ==
    LET f == S.fields[i]
        upd == [k \in 1 .. Len(f.particles) |->
                    UpdateParticle(f.particles[k], f.width, f.height, f.mouse)]
    IN  [S EXCEPT !.fields[i].particles = [k \in 1 .. Len(upd) |-> upd[k].p],
                  !.fields[i].lines = [k \in 1 .. Len(upd) |-> upd[k].line]]

Animate(S, i) ==
    LET f == S.fields[i]
        upd == [k \in 1 .. Len(f.particles) |->
                    UpdateParticle(f.particles[k], f.width, f.height, f.mouse)]
        S1 == [S EXCEPT !.fields[i].particles = [k \in 1 .. Len(upd) |-> upd[k].p],
                        !.fields[i].lines = [k \in 1 .. Len(upd) |-> upd[k].line]]
    IN  RequestAnimationFrame(S1, i)

\* The constructor with line 46 reading the pointer of the previous instance
NewAnimatedBg_SharedMouse(S, container, size, rnd) ==
    LET i == Len(S.fields) + 1
        f0 == [container |-> container, parentNode |-> container,
               width |-> 0, height |-> 0, particles |-> <<>>,
               mouse |-> IF i > 1 THEN S.fields[i - 1].mouse ELSE <<>>,
               animationId |-> 0, destroyCalls |-> 0, lines |-> <<>>]
        S1 == [S EXCEPT !.fields = Append(@, f0)]
        S2 == Resize(S1, i, size)
        S3 == InitParticles(S2, i, rnd)
        S4 == AddEvents(S3, i)
    IN  Animate(S4, i)

\* new AnimatedBg(container); the new instance is number Len(S.fields) + 1
NewAnimatedBg(S, container, size, rnd) ==
    LET i == Len(S.fields) + 1
        f0 == [container |-> container, parentNode |-> container,
               width |-> 0, height |-> 0, particles |-> <<>>, mouse |-> <<>>,
               animationId |-> 0, destroyCalls |-> 0, lines |-> <<>>]
        S1 == [S EXCEPT !.fields = Append(@, f0)]
        S2 == Resize(S1, i, size)
        S3 == InitParticles(S2, i, rnd)
        S4 == AddEvents(S3, i)
    IN  Animate(S4, i)

\* moveHandler of instance i; pt is (e.clientX - rect.left, e.clientY - rect.top)
MoveHandler(S, i, pt) == [S EXCEPT !.fields[i].mouse = pt]

-----------------------------------------------------------------------------
(* Focus controller *)

\* Lines 145-149 and 160-164 with the destroy() call dropped
CleanupEffect_Leak(S) == [S EXCEPT !.currentEffect = 0]

\* Lines 145-149 and 160-164 with currentEffect = null dropped
CleanupEffect_KeepRef(S) ==
    IF S.currentEffect # 0
    THEN Destroy(S, S.currentEffect)
    ELSE S

\* if (currentEffect) { currentEffect.destroy(); currentEffect = null; }
CleanupEffect(S) ==
    IF S.currentEffect # 0
    THEN [Destroy(S, S.currentEffect) EXCEPT !.currentEffect = 0]
    ELSE S

\* The forEach of lines 152 and 165 removing nothing
ClearFocused_Keep(S) == S

\* sections.forEach(s => s.classList.remove('focused'))
ClearFocused(S) == [S EXCEPT !.focused = {}]

\* setFocus() without the early return of line 143
SetFocus_NoEarlyReturn(S, section, size, rnd) ==
    LET S1 == CleanupEffect(S)
        S2 == ClearFocused(S1)
        S3 == [S2 EXCEPT !.focused = @ \cup {section}, !.hasFocus = TRUE]
        S4 == NewAnimatedBg(S3, section, size, rnd)
    IN  [S4 EXCEPT !.currentEffect = Len(S4.fields)]

\* size and rnd are what the constructor reads from the environment: the
\* container's offset size and the Math.random() draws of initParticles().
SetFocus(S, section, size, rnd) ==
    IF section \in S.focused
    THEN S
    ELSE LET S1 == CleanupEffect(S)
             S2 == ClearFocused(S1)
             S3 == [S2 EXCEPT !.focused = @ \cup {section}, !.hasFocus = TRUE]
             S4 == NewAnimatedBg(S3, section, size, rnd)
         IN  [S4 EXCEPT !.currentEffect = Len(S4.fields)]

RemoveFocus(S) ==
    LET S1 == CleanupEffect(S)
        S2 == ClearFocused(S1)
    IN  [S2 EXCEPT !.hasFocus = FALSE]

\* The section listener with the else branch of lines 176-179 left empty
SectionClick_ElseBubbles(S, sec, size, rnd) ==
    IF sec \notin S.focused
    THEN [st |-> SetFocus(S, sec, size, rnd), stopped |-> TRUE]
    ELSE [st |-> S, stopped |-> FALSE]

\* The click listener of section sec; stopped: it called e.stopPropagation()
SectionClick(S, sec, size, rnd) ==
    IF sec \notin S.focused
    THEN [st |-> SetFocus(S, sec, size, rnd), stopped |-> TRUE]
    ELSE [st |-> S, stopped |-> TRUE]

\* The click listener of document
DocumentClick(S) == RemoveFocus(S)

\* Dispatch of a click on target: the listener of the section holding the
\* target, then, unless propagation was stopped, the listener of document.
DispatchClick(S, target, size, rnd) ==
    LET r == IF target \in Sections
             THEN SectionClick(S, target, size, rnd)
             ELSE [st |-> S, stopped |-> FALSE]
    IN  IF r.stopped
        THEN [st |-> r.st, docRan |-> FALSE]
        ELSE [st |-> DocumentClick(r.st), docRan |-> TRUE]

-----------------------------------------------------------------------------
(* Scroll carousel *)

\* The comparison of line 202 with <= for <
Closer_OrEqual(distance, minDistance) ==
    minDistance = Infinity \/ distance <= minDistance

\* distance < minDistance
Closer(distance, minDistance) ==
    minDistance = Infinity \/ distance < minDistance

\* Twice Math.abs(viewportCenter - sectionCenter) for bounding box rect: the
\* halves of lines 195 and 199 are kept whole by doubling both sides.
Distance2(rect) == Abs(InnerHeight - (2 * rect.top + rect.height))

\* The forEach of lines 197-206 from section k on; geom[k] is the bounding
\* box of section k. The result is closestSection, 0 for null.
RECURSIVE Scan(_, _, _, _)
Scan(geom, k, closestSection, minDistance) ==
    IF k > Len(geom)
    THEN closestSection
    ELSE IF Closer(Distance2(geom[k]), minDistance)
         THEN Scan(geom, k + 1, k, Distance2(geom[k]))
         ELSE Scan(geom, k + 1, closestSection, minDistance)

\* The scroll listener without the guard of line 191
ScrollHandler_NoGuard(S, geom, size, rnd) ==
    LET closestSection == Scan(geom, 1, 0, Infinity)
    IN  IF closestSection # 0 /\ closestSection \notin S.focused
        THEN SetFocus(S, closestSection, size, rnd)
        ELSE S

ScrollHandler(S, geom, size, rnd) ==
    IF ~S.hasFocus
    THEN S
    ELSE LET closestSection == Scan(geom, 1, 0, Infinity)
         IN  IF closestSection # 0 /\ closestSection \notin S.focused
             THEN SetFocus(S, closestSection, size, rnd)
             ELSE S

-----------------------------------------------------------------------------
(* Reveal observer *)

\* The entry handler of lines 13-17 without observer.unobserve
OnEntry_KeepObserving(R, entry) ==
    IF entry.isIntersecting
    THEN [R EXCEPT !.isVisible = @ \cup {entry.target},
                   !.addCalls[entry.target] = @ + 1]
    ELSE R

\* The entry handler of lines 13-17 without the isIntersecting test
OnEntry_Always(R, entry) ==
    [R EXCEPT !.isVisible = @ \cup {entry.target},
              !.addCalls[entry.target] = @ + 1,
              !.observed = @ \ {entry.target}]

OnEntry(R, entry) ==
    IF entry.isIntersecting
    THEN [R EXCEPT !.isVisible = @ \cup {entry.target},
                   !.addCalls[entry.target] = @ + 1,
                   !.observed = @ \ {entry.target}]
    ELSE R

\* entries.forEach(...) from entry k on
RECURSIVE ObserverCallback(_, _, _)
ObserverCallback(R, entries, k) ==
    IF k > Len(entries)
    THEN R
    ELSE ObserverCallback(OnEntry(R, entries[k]), entries, k + 1)

-----------------------------------------------------------------------------
(* What the environment supplies *)

\* offsetWidth x offsetHeight of a container, in pixels
Sizes == {<<0, 0>>, <<400, 300>>}

\* The size of a section when a click or a scroll focuses it
SectionSizes == {<<400, 300>>}

\* Math.random() draws of one particle, as numerators over RandDen
Draw(x, y, vx, vy) == [x |-> x, y |-> y, vx |-> vx, vy |-> vy, size |-> 0]

Draws == {Draw(RandDen - 1, RandDen \div 2, 667, RandDen \div 2)}

WideDraws ==
    {Draw(0, RandDen \div 2, 134, 134),
     Draw(418, RandDen \div 2, 667, RandDen \div 2),
     Draw(RandDen - 1, RandDen \div 2, 667, 134),
     Draw(RandDen - 1, RandDen \div 2, 134, RandDen \div 2)}

Rnd(draws) == [1 .. NumParticles -> draws]

\* Pointer positions relative to the canvas, in units
MousePoints == {<<200 * Scale, 150 * Scale>>, <<360 * Scale, 150 * Scale>>, <<0, 0>>}

\* Bounding boxes of a section: centers at 390, 410 and 650 pixels
Rects == {[top |-> t, height |-> 200] : t \in {290, 310, 550}}

Geoms == [1 .. NumSections -> Rects]

\* Batches of IntersectionObserverEntry records for observed targets
Entries == [target : observed, isIntersecting : BOOLEAN]

Batches == UNION {[1 .. n -> Entries] : n \in 1 .. MaxBatch}

CanConstruct == Len(fields) < MaxFields /\ nextHandle <= MaxHandles

\* What a handler reads from the environment when it constructs a field;
\* a handler that constructs none reads nothing
NoEnv == [size |-> <<0, 0>>, rnd |-> <<>>]

Envs(constructs, sizes, draws) ==
    IF constructs
    THEN [size : sizes, rnd : Rnd(draws)]
    ELSE {NoEnv}

-----------------------------------------------------------------------------
(* Initial state: the script has run, no event has been handled yet *)

Init ==
    /\ focused = {}
    /\ hasFocus = FALSE
    /\ currentEffect = 0
    /\ fields = <<>>
    /\ rafPending = {}
    /\ nextHandle = 1
    /\ mousemoveListeners = {}
    /\ resizeListeners = {}
    /\ isVisible = {}
    /\ observed = Elements
    /\ addCalls = [e \in Elements |-> 0]
    /\ lastEvent = Event("load", 0)

-----------------------------------------------------------------------------
(* Events *)

\* A click whose target lies in section target, or outside every section
Click(target, size, rnd) ==
    /\ (target \in Sections /\ target \notin focused) => CanConstruct
    /\ LET r == DispatchClick(St, target, size, rnd)
       IN  /\ Commit(r.st)
           /\ lastEvent' = [Event("click", target) EXCEPT
                                !.wasFocused = target \in focused,
                                !.docRan = r.docRan]
    /\ UNCHANGED revealVars

\* The section nearest to the viewport center under geom, the first one in
\* document order among equally near ones
Nearest(geom) ==
    CHOOSE s \in 1 .. Len(geom) :
        /\ \A t \in 1 .. Len(geom) : Distance2(geom[s]) <= Distance2(geom[t])
        /\ \A t \in 1 .. (s - 1) : Distance2(geom[t]) > Distance2(geom[s])

Tied(geom) ==
    LET n == Nearest(geom)
    IN  \E t \in 1 .. Len(geom) : t # n /\ Distance2(geom[t]) = Distance2(geom[n])

\* A scroll event of window; geom is the live geometry of the sections
Scroll(geom, size, rnd) ==
    /\ (hasFocus /\ Scan(geom, 1, 0, Infinity) \notin focused) => CanConstruct
    /\ Commit(ScrollHandler(St, geom, size, rnd))
    /\ LET n == Nearest(geom)
       IN  lastEvent' = [Event("scroll", n) EXCEPT
                             !.wasFocused = n \in focused,
                             !.tie = Tied(geom)]
    /\ UNCHANGED revealVars

\* The browser runs the pending animation frame callback r: () => this.animate()
FrameCallback(r) ==
    /\ r \in rafPending
    /\ nextHandle <= MaxHandles
    /\ LET f == fields[r.inst]
           S1 == [St EXCEPT !.rafPending = @ \ {r}]
       IN  /\ Commit(Animate(S1, r.inst))
           /\ lastEvent' = [Event("frame", r.inst) EXCEPT
                                !.destroyed = f.destroyCalls > 0,
                                !.pre = [particles |-> f.particles, width |-> f.width,
                                         height |-> f.height, mouse |-> f.mouse]]
    /\ UNCHANGED revealVars

\* A mousemove event of window: every registered moveHandler runs
MouseMove(pt) ==
    /\ Commit([St EXCEPT !.fields =
                  [i \in 1 .. Len(fields) |->
                      IF i \in mousemoveListeners
                      THEN MoveHandler(St, i, pt).fields[i]
                      ELSE fields[i]]])
    /\ lastEvent' = Event("mousemove", 0)
    /\ UNCHANGED revealVars

\* A resize event of window: every registered resizeHandler runs
WindowResize(size) ==
    /\ Commit([St EXCEPT !.fields =
                  [i \in 1 .. Len(fields) |->
                      IF i \in resizeListeners
                      THEN Resize(St, i, size).fields[i]
                      ELSE fields[i]]])
    /\ lastEvent' = Event("resize", 0)
    /\ UNCHANGED revealVars

\* The observer delivers a batch of entries to observerCallback
Notify(batch) ==
    /\ LET R == ObserverCallback([isVisible |-> isVisible, observed |-> observed,
                                  addCalls |-> addCalls], batch, 1)
       IN  /\ isVisible' = R.isVisible
           /\ observed' = R.observed
           /\ addCalls' = R.addCalls
    /\ lastEvent' = [Event("notify", 0) EXCEPT !.batch = batch]
    /\ UNCHANGED progVars

\* setFocus and removeFocus called directly, on any section in any state
CallSetFocus(section, size, rnd) ==
    /\ section \notin focused => CanConstruct
    /\ Commit(SetFocus(St, section, size, rnd))
    /\ lastEvent' = [Event("setFocus", section) EXCEPT
                         !.wasFocused = section \in focused]
    /\ UNCHANGED revealVars

CallRemoveFocus ==
    /\ Commit(RemoveFocus(St))
    /\ lastEvent' = Event("removeFocus", 0)
    /\ UNCHANGED revealVars

-----------------------------------------------------------------------------
(* Specifications *)

\* The focus controller, the carousel and the particle field under every
\* interleaving of clicks, scrolls, frames, pointer moves and resizes
Next ==
    \/ \E t \in Sections \cup {Background} :
           \E env \in Envs(t \in Sections /\ t \notin focused, SectionSizes, Draws) :
               Click(t, env.size, env.rnd)
    \/ \E geom \in Geoms :
           \E env \in Envs(hasFocus /\ Nearest(geom) \notin focused, SectionSizes, Draws) :
               Scroll(geom, env.size, env.rnd)
    \/ \E r \in rafPending : FrameCallback(r)

Spec == Init /\ [][Next]_vars

\* The display keeps firing: a pending animation frame callback is run
FrameStep == \E r \in rafPending : FrameCallback(r)

\* FrameStep as rafPending sees it: a pending callback is replaced by the
\* next callback of the same instance
FrameDue ==
    \E r \in rafPending :
        /\ nextHandle <= MaxHandles
        /\ rafPending' = (rafPending \ {r}) \cup {[handle |-> nextHandle, inst |-> r.inst]}

SpecLive == Init /\ [][Next]_vars /\ WF_rafPending(FrameDue)

\* FrameDue singles out the frame steps
FrameDueIsFrameStep == [][FrameDue <=> FrameStep]_vars

\* The same, with setFocus and removeFocus also called directly
NextCalls ==
    \/ Next
    \/ \E s \in Sections :
           \E env \in Envs(TRUE, SectionSizes, Draws) : CallSetFocus(s, env.size, env.rnd)
    \/ CallRemoveFocus

SpecCalls == Init /\ [][NextCalls]_vars

\* The reveal observer, which shares no state with the rest
NextReveal == \E batch \in Batches : Notify(batch)

SpecReveal == Init /\ [][NextReveal]_vars

\* One geometry per section: that section nearest the viewport centre
NearGeoms ==
    {[s \in Sections |-> [top |-> IF s = n THEN 310 ELSE 550, height |-> 200]] :
         n \in Sections}

\* A pointer position within reach of the seeded particle
PointerPoints == {<<360 * Scale, 150 * Scale>>}

\* The focus controller and the carousel together with pointer moves
NextPointer ==
    \/ \E t \in Sections \cup {Background} :
           \E env \in Envs(t \in Sections /\ t \notin focused, SectionSizes, Draws) :
               Click(t, env.size, env.rnd)
    \/ \E geom \in NearGeoms :
           \E env \in Envs(hasFocus /\ Nearest(geom) \notin focused, SectionSizes, Draws) :
               Scroll(geom, env.size, env.rnd)
    \/ FrameStep
    \/ \E pt \in PointerPoints : MouseMove(pt)

SpecPointer == Init /\ [][NextPointer]_vars

\* One field seeded from a wide range of draws: the state after the first
\* click on section 1, then frames, pointer moves and resizes
InitParticle ==
    /\ \E size \in Sizes, rnd \in Rnd(WideDraws) :
           LET S0 == [focused |-> {}, hasFocus |-> FALSE, currentEffect |-> 0,
                      fields |-> <<>>, rafPending |-> {}, nextHandle |-> 1,
                      mousemoveListeners |-> {}, resizeListeners |-> {}]
               S == SetFocus(S0, 1, size, rnd)
           IN  /\ focused = S.focused
               /\ hasFocus = S.hasFocus
               /\ currentEffect = S.currentEffect
               /\ fields = S.fields
               /\ rafPending = S.rafPending
               /\ nextHandle = S.nextHandle
               /\ mousemoveListeners = S.mousemoveListeners
               /\ resizeListeners = S.resizeListeners
    /\ isVisible = {}
    /\ observed = Elements
    /\ addCalls = [e \in Elements |-> 0]
    /\ lastEvent = [Event("click", 1) EXCEPT !.hadFocus = FALSE]

NextParticle ==
    \/ \E r \in rafPending : FrameCallback(r)
    \/ \E pt \in MousePoints : MouseMove(pt)
    \/ \E size \in Sizes : WindowResize(size)

SpecParticle == InitParticle /\ [][NextParticle]_vars

-----------------------------------------------------------------------------
(* Properties *)

Live == {i \in 1 .. Len(fields) : fields[i].destroyCalls = 0}

Attached == {i \in 1 .. Len(fields) : fields[i].parentNode # 0}

\* C1: between handlers at most one section carries 'focused', and the body
\* carries 'has-focus' exactly when some section carries 'focused'.
C1_OneFocused ==
    /\ Cardinality(focused) <= 1
    /\ hasFocus <=> focused # {}

C1_Witness ==
    /\ lastEvent.type = "scroll"
    /\ Len(fields) >= 2
    /\ focused # {}

\* C2: exactly one field is live while a section is focused and none
\* otherwise; currentEffect is that field, and its canvas is a child of the
\* focused section while no other canvas is in the document.
C2_OneLiveField ==
    /\ Cardinality(Live) = (IF focused # {} THEN 1 ELSE 0)
    /\ currentEffect # 0 <=> focused # {}
    /\ currentEffect # 0 =>
           /\ Live = {currentEffect}
           /\ focused = {fields[currentEffect].parentNode}
           /\ fields[currentEffect].parentNode = fields[currentEffect].container
    /\ Attached \subseteq {currentEffect}

C2_Witness ==
    /\ Len(fields) >= 2
    /\ currentEffect = Len(fields)
    /\ fields[1].destroyCalls = 1

\* C3: animate() never runs on an instance whose destroy() has been called,
\* and no animation frame callback of such an instance is pending.
C3_NoFrameAfterDestroy ==
    /\ lastEvent.type = "frame" => ~lastEvent.destroyed
    /\ \A r \in rafPending : fields[r.inst].destroyCalls = 0

C3_Witness ==
    /\ lastEvent.type = "frame"
    /\ \E i \in 1 .. Len(fields) :
           i # lastEvent.target /\ fields[i].destroyCalls > 0

\* What a click leaves behind, by its target
ClickPost ==
    LET t == lastEvent.target
    IN  /\ (t \in Sections /\ ~lastEvent.wasFocused) =>
               /\ focused = {t}
               /\ hasFocus
               /\ ~lastEvent.docRan
               /\ currentEffect # 0
               /\ Attached = {currentEffect}
               /\ fields[currentEffect].parentNode = t
        /\ (t \in Sections /\ lastEvent.wasFocused) => ~lastEvent.docRan
        /\ t = Background =>
               /\ lastEvent.docRan
               /\ focused = {}
               /\ ~hasFocus
               /\ Attached = {}

\* C4: a click on an unfocused section focuses it alone, with one field
\* attached to it, and does not reach the document listener; a click on the
\* focused section changes nothing and does not reach it either; a click
\* outside every section leaves nothing focused and no canvas attached.
C4_ClickWiring ==
    [][lastEvent'.type = "click" =>
           /\ ClickPost'
           /\ lastEvent'.wasFocused => UNCHANGED progVars]_vars

C4_Witness ==
    /\ lastEvent.type = "click"
    /\ lastEvent.wasFocused
    /\ focused = {lastEvent.target}
    /\ currentEffect # 0

\* C5: setFocus on the focused section is a no-op: no field is destroyed or
\* created, currentEffect and every flag stay as they were.
C5_SetFocusFocusedNoop ==
    [][(lastEvent'.type = "setFocus" /\ lastEvent'.wasFocused) =>
           UNCHANGED progVars]_vars

C5_Witness ==
    /\ lastEvent.type = "setFocus"
    /\ lastEvent.wasFocused
    /\ currentEffect # 0

\* C6: after a scroll in focus mode the focused section is the one nearest
\* to the viewport center, the first in document order on ties; nothing
\* changes when it was focused already, else a new field replaces the old.
C6_ScrollNearest ==
    [][(lastEvent'.type = "scroll" /\ lastEvent'.hadFocus) =>
           /\ focused' = {lastEvent'.target}
           /\ lastEvent'.wasFocused => UNCHANGED progVars
           /\ ~lastEvent'.wasFocused =>
                  /\ currentEffect' = Len(fields) + 1
                  /\ fields'[currentEffect'].container = lastEvent'.target]_vars

C6_Witness ==
    /\ lastEvent.type = "scroll"
    /\ lastEvent.hadFocus
    /\ lastEvent.tie
    /\ ~lastEvent.wasFocused
    /\ focused = {lastEvent.target}

\* C7: a scroll without 'has-focus' changes nothing.
C7_ScrollIgnored ==
    [][(lastEvent'.type = "scroll" /\ ~lastEvent'.hadFocus) =>
           UNCHANGED progVars]_vars

C7_Witness ==
    /\ lastEvent.type = "scroll"
    /\ ~lastEvent.hadFocus
    /\ Len(fields) >= 1

BatchTargets(batch) == {batch[k].target : k \in 1 .. Len(batch)}

\* C8: an element with 'is-visible' keeps it, is not observed any more, and
\* no later notification reports it or calls classList.add for it again.
C8_RevealOnce ==
    [][\A e \in Elements :
           /\ e \in isVisible' => e \notin observed'
           /\ e \in isVisible =>
                  /\ e \in isVisible'
                  /\ e \notin BatchTargets(lastEvent'.batch)
                  /\ addCalls'[e] = addCalls[e]]_vars

C8_Witness ==
    /\ lastEvent.type = "notify"
    /\ \E e \in isVisible :
           /\ e \notin BatchTargets(lastEvent.batch)
           /\ \E k \in 1 .. Len(lastEvent.batch) : lastEvent.batch[k].isIntersecting

\* C9: a destroyed field has no listener on window and no canvas in the
\* document, so the registered pointer-move listeners, the registered resize
\* listeners and the attached canvases are those of the live fields, at
\* most one.
C9_NoListenerLeak ==
    /\ mousemoveListeners = Live
    /\ resizeListeners = Live
    /\ Attached = Live
    /\ Cardinality(Live) <= 1

C9_Witness ==
    /\ Len(fields) >= 2
    /\ mousemoveListeners = {Len(fields)}
    /\ resizeListeners = {Len(fields)}

\* The bounce of one particle from p to q on a canvas of w x h units
Bounced(p, q, w, h) ==
    LET x1 == p.x + p.vx
        y1 == p.y + p.vy
        outX == x1 < 0 \/ x1 > w
        outY == y1 < 0 \/ y1 > h
    IN  /\ q.vx = (IF outX THEN -p.vx ELSE p.vx)
        /\ q.vy = (IF outY THEN -p.vy ELSE p.vy)
        /\ (p.x = w /\ p.vx > 0) => q.vx = -p.vx
        /\ (p.x = 0 /\ p.vx < 0) => q.vx = -p.vx
        /\ (p.y = h /\ p.vy > 0) => q.vy = -p.vy
        /\ (p.y = 0 /\ p.vy < 0) => q.vy = -p.vy
        /\ (p.vx # 0 /\ p.vy # 0 /\ q.vx = -p.vx /\ q.vy = -p.vy) => (outX /\ outY)

\* C10: in a frame vx is negated exactly when the advanced x is < 0 or
\* > width, vy exactly when the advanced y is < 0 or > height; a particle on
\* a boundary moving outward is turned around, and both components turn in
\* one frame only when both coordinates are out of bounds.
C10_Bounce ==
    lastEvent.type = "frame" =>
        \A k \in 1 .. Len(lastEvent.pre.particles) :
            Bounced(lastEvent.pre.particles[k],
                    fields[lastEvent.target].particles[k],
                    lastEvent.pre.width * Scale, lastEvent.pre.height * Scale)

C10_Witness ==
    /\ lastEvent.type = "frame"
    /\ \E k \in 1 .. Len(lastEvent.pre.particles) :
           LET p == lastEvent.pre.particles[k]
               q == fields[lastEvent.target].particles[k]
           IN  /\ lastEvent.pre.width > 0
               /\ p.x = lastEvent.pre.width * Scale
               /\ p.vx > 0
               /\ q.vx = -p.vx
               /\ q.vy = p.vy

\* The attraction line of one particle in a frame: p the particle before the
\* frame, mouse the pointer, line what the frame stroked (-1 for nothing)
LineRule(p, mouse, line) ==
    LET x1 == p.x + p.vx
        y1 == p.y + p.vy
        d2 == (mouse[1] - x1) * (mouse[1] - x1) + (mouse[2] - y1) * (mouse[2] - y1)
        d == Radius - line
    IN  IF mouse = <<>>
        THEN line = -1
        ELSE /\ line # -1 <=> d2 < Radius * Radius
             /\ line # -1 =>
                    /\ d >= 0 /\ d * d <= d2 /\ d2 < (d + 1) * (d + 1)
                    /\ line > 0 /\ line <= Radius
                    /\ d2 = 0 => line = Radius

\* C11: with the pointer known at distance d of a particle, a line is
\* stroked exactly when d < 150, with opacity 1 - d / 150 (1 at d = 0, above
\* 0 below 150, smaller for a larger d); none at d >= 150 or with the
\* pointer unset.
C11_AttractionLine ==
    lastEvent.type = "frame" =>
        LET ps == lastEvent.pre.particles
            ls == fields[lastEvent.target].lines
            m == lastEvent.pre.mouse
            D2(k) == (m[1] - ps[k].x - ps[k].vx) * (m[1] - ps[k].x - ps[k].vx)
                     + (m[2] - ps[k].y - ps[k].vy) * (m[2] - ps[k].y - ps[k].vy)
        IN  /\ \A k \in 1 .. Len(ps) : LineRule(ps[k], m, ls[k])
            /\ \A j, k \in 1 .. Len(ps) :
                   (ls[j] # -1 /\ ls[k] # -1 /\ ls[j] > ls[k]) => D2(j) < D2(k)

C11_Witness ==
    /\ lastEvent.type = "frame"
    /\ lastEvent.pre.mouse = <<200 * Scale, 150 * Scale>>
    /\ \E k \in 1 .. Len(lastEvent.pre.particles) :
           /\ lastEvent.pre.particles[k].x + lastEvent.pre.particles[k].vx = 210 * Scale
           /\ lastEvent.pre.particles[k].y + lastEvent.pre.particles[k].vy = 150 * Scale
           /\ fields[lastEvent.target].lines[k] = Radius - 10 * Scale

\* A frame in which a particle is exactly 150 pixels from the pointer
C11_AtRadius ==
    /\ lastEvent.type = "frame"
    /\ lastEvent.pre.mouse # <<>>
    /\ \E k \in 1 .. Len(lastEvent.pre.particles) :
           LET p == lastEvent.pre.particles[k]
               m == lastEvent.pre.mouse
           IN  (m[1] - p.x - p.vx) * (m[1] - p.x - p.vx)
                 + (m[2] - p.y - p.vy) * (m[2] - p.y - p.vy) = Radius * Radius

\* The attraction of one particle in a frame on a canvas of w x h units: p
\* the particle before the frame, q after it, mouse the pointer
NudgeRule(p, q, mouse, w, h) ==
    LET x1 == p.x + p.vx
        y1 == p.y + p.vy
        dx == mouse[1] - x1
        dy == mouse[2] - y1
        near == mouse # <<>> /\ dx * dx + dy * dy < Radius * Radius
        mx == q.x - x1
        my == q.y - y1
    IN  /\ near =>
               /\ Abs(100 * mx - 2 * dx) < 100 /\ mx * dx >= 0
               /\ Abs(100 * my - 2 * dy) < 100 /\ my * dy >= 0
               /\ (2 * dx) % 100 = 0 => 100 * mx = 2 * dx
               /\ (2 * dy) % 100 = 0 => 100 * my = 2 * dy
        /\ ~near => (mx = 0 /\ my = 0)
        /\ q.vx = (IF x1 < 0 \/ x1 > w THEN -p.vx ELSE p.vx)
        /\ q.vy = (IF y1 < 0 \/ y1 > h THEN -p.vy ELSE p.vy)

\* C12: with the pointer known and nearer than 150, a frame moves the
\* particle by 2% of its offset to the pointer on each axis, measured after
\* the velocity step (to the resolution of the grid, exactly where 2% of the
\* offset is on the grid), and leaves the velocity to the bounce alone;
\* otherwise the attraction changes neither position nor velocity.
C12_Nudge ==
    lastEvent.type = "frame" =>
        \A k \in 1 .. Len(lastEvent.pre.particles) :
            NudgeRule(lastEvent.pre.particles[k],
                      fields[lastEvent.target].particles[k], lastEvent.pre.mouse,
                      lastEvent.pre.width * Scale, lastEvent.pre.height * Scale)

\* Pointer (200, 150), particle at (210, 150) after the velocity step, at
\* (209.8, 150) after the frame
C12_Witness ==
    /\ lastEvent.type = "frame"
    /\ lastEvent.pre.mouse = <<200 * Scale, 150 * Scale>>
    /\ \E k \in 1 .. Len(lastEvent.pre.particles) :
           LET p == lastEvent.pre.particles[k]
               q == fields[lastEvent.target].particles[k]
           IN  /\ p.x + p.vx = 210 * Scale
               /\ p.y + p.vy = 150 * Scale
               /\ 10 * q.x = 2098 * Scale
               /\ q.y = 150 * Scale
               /\ q.vx = p.vx

\* A step in which removeFocus() ran: called directly, or by the document
\* listener
RemoveFocusRan(e) ==
    e.type = "removeFocus" \/ (e.type = "click" /\ e.docRan)

\* C13: removeFocus() with nothing focused changes nothing, and a second
\* removeFocus() right after one changes nothing more.
C13_RemoveFocusIdempotent ==
    [][RemoveFocusRan(lastEvent') =>
           /\ focused = {} => UNCHANGED progVars
           /\ RemoveFocus(St)' = St']_vars

C13_Witness ==
    /\ lastEvent.type = "removeFocus"
    /\ ~lastEvent.hadFocus
    /\ Len(fields) >= 1
    /\ \A i \in 1 .. Len(fields) : fields[i].destroyCalls = 1

\* Coordinate v lies outside a surface extent of max units
Outside(v, max) == v < 0 \/ v > max

\* C14: a particle that is outside the surface on an axis after one frame is
\* back inside on that axis after the next frame (stated for two frames of
\* a field with no other event between them).
C14_OvershootOneFrame ==
    [][(lastEvent.type = "frame" /\ lastEvent'.type = "frame"
            /\ lastEvent'.target = lastEvent.target) =>
           LET i == lastEvent.target
           IN  \A k \in 1 .. Len(fields[i].particles) :
                   /\ Outside(fields[i].particles[k].x, fields[i].width * Scale) =>
                          ~Outside(fields'[i].particles[k].x, fields'[i].width * Scale)
                   /\ Outside(fields[i].particles[k].y, fields[i].height * Scale) =>
                          ~Outside(fields'[i].particles[k].y, fields'[i].height * Scale)]_vars

\* C15: destroy() is never called twice on an instance, and every instance
\* that is not currentEffect any more has had destroy() called on it.
C15_DestroyedOnce ==
    /\ \A i \in 1 .. Len(fields) :
           /\ fields[i].destroyCalls <= 1
           /\ i # currentEffect => fields[i].destroyCalls = 1
    /\ currentEffect \in 0 .. Len(fields)

\* Two fields were replaced or dropped, and a document click found nothing
\* left to tear down
C15_Witness ==
    /\ Len(fields) >= 2
    /\ currentEffect = 0
    /\ lastEvent.type = "click" /\ lastEvent.docRan /\ ~lastEvent.hadFocus
    /\ \A i \in 1 .. Len(fields) : fields[i].destroyCalls = 1

\* The callbacks pending for instance i
PendingOf(i) == {r \in rafPending : r.inst = i}

\* C16: a live field always has exactly one frame pending, the one it
\* requested last (the loop stops only through destroy()); a frame leaves
\* exactly one new request behind; and with the display firing, a live
\* field whose frame is pending runs it, unless it is destroyed first (in
\* the model: while requestAnimationFrame handles remain).
C16_RedrawLive ==
    /\ [](\A i \in Live :
              PendingOf(i) = {[handle |-> fields[i].animationId, inst |-> i]})
    /\ [][lastEvent'.type = "frame" =>
              /\ Cardinality(rafPending') = Cardinality(rafPending)
              /\ rafPending' \ rafPending =
                     {[handle |-> nextHandle, inst |-> lastEvent'.target]}]_vars
    /\ \A h \in 1 .. MaxHandles :
           (/\ \E i \in Live : fields[i].animationId = h
            /\ nextHandle <= MaxHandles)
               ~> (\A i \in Live : fields[i].animationId # h)

\* The second frame in a row of the first field
C16_Witness ==
    /\ lastEvent.type = "frame"
    /\ lastEvent.target = 1
    /\ Live = {1}
    /\ fields[1].animationId >= 3
    /\ PendingOf(1) # {}

\* The frame of instance i drew no line and moved every particle by its
\* velocity alone
Unattracted(pre, f) ==
    \A k \in 1 .. Len(f.particles) :
        /\ f.lines[k] = -1
        /\ f.particles[k].x = pre.particles[k].x + pre.particles[k].vx
        /\ f.particles[k].y = pre.particles[k].y + pre.particles[k].vy

\* C17: the pointer state belongs to one instance: a field is constructed
\* with the pointer unset and its constructor's frame draws no line; the
\* pointer of a field changes only in a mousemove event, and only for the
\* live field; a frame of a field whose pointer is unset draws no line and
\* nudges no particle
C17_PointerPerInstance ==
    [][/\ Len(fields') > Len(fields) =>
             LET f == fields'[Len(fields')]
             IN  /\ f.mouse = <<>>
                 /\ \A k \in 1 .. Len(f.lines) : f.lines[k] = -1
       /\ \A i \in 1 .. Len(fields) :
             fields'[i].mouse # fields[i].mouse =>
                 /\ lastEvent'.type = "mousemove"
                 /\ i = currentEffect
                 /\ i \in Live
       /\ (lastEvent'.type = "frame" /\ lastEvent'.pre.mouse = <<>>) =>
             Unattracted(lastEvent'.pre, fields'[lastEvent'.target])]_vars

\* The first field drew a line to its pointer; the second field, created
\* afterwards, ran a frame with no pointer
C17_Witness ==
    /\ Len(fields) >= 2
    /\ fields[1].mouse # <<>>
    /\ \E k \in 1 .. Len(fields[1].lines) : fields[1].lines[k] # -1
    /\ fields[2].mouse = <<>>
    /\ lastEvent.type = "frame"
    /\ lastEvent.target = 2
    /\ Unattracted(lastEvent.pre, fields[2])

\* C18: between handlers at most one animation frame callback is pending; it
\* is the latest one requested by the live field, and none is pending while
\* no section is focused.
C18_OnePending ==
    /\ Cardinality(rafPending) <= 1
    /\ \A r \in rafPending :
           /\ r.inst = currentEffect
           /\ r.inst \in Live
           /\ r.handle = fields[r.inst].animationId
    /\ focused = {} => rafPending = {}

C18_Witness ==
    /\ Len(fields) >= 2
    /\ fields[1].destroyCalls = 1
    /\ fields[1].animationId >= 2
    /\ rafPending = {[handle |-> fields[2].animationId, inst |-> 2]}
    /\ lastEvent.type = "frame"

\* C19: a scroll event in focus mode leaves the page in focus mode with
\* exactly one focused section; focus mode starts only with a click on a
\* section and ends only with a click that reaches the document listener.
C19_FocusModeBorders ==
    [][/\ (lastEvent'.type = "scroll" /\ hasFocus) =>
             /\ hasFocus'
             /\ Cardinality(focused') = 1
       /\ (~hasFocus /\ hasFocus') =>
             /\ lastEvent'.type = "click"
             /\ lastEvent'.target \in Sections
       /\ (hasFocus /\ ~hasFocus') =>
             /\ lastEvent'.type = "click"
             /\ lastEvent'.docRan]_vars

\* Focus mode was entered by a click and a scroll in focus mode moved the
\* focus to another section
C19_Witness ==
    /\ lastEvent.type = "scroll"
    /\ lastEvent.hadFocus
    /\ ~lastEvent.wasFocused
    /\ ~lastEvent.tie
    /\ hasFocus
    /\ Len(fields) >= 2
    /\ fields[1].destroyCalls = 1

\* Entry k of a batch reports element e as intersecting
Hit(batch, e) ==
    \E k \in 1 .. Len(batch) : batch[k].target = e /\ batch[k].isIntersecting

\* C20: an element gains 'is-visible' only in a callback whose entries report
\* it as intersecting; an observed element reported only as not intersecting
\* stays without the flag and observed; an observed element reported as
\* intersecting has the flag when that callback returns.
C20_RevealOnlyIntersecting ==
    /\ isVisible \cap observed = {}
    /\ [][\A e \in Elements :
             LET batch == lastEvent'.batch
             IN  /\ (e \in isVisible' /\ e \notin isVisible) => Hit(batch, e)
                 /\ (e \in observed /\ e \in BatchTargets(batch) /\ ~Hit(batch, e)) =>
                        /\ e \notin isVisible'
                        /\ e \in observed'
                 /\ (e \in observed /\ Hit(batch, e)) => e \in isVisible']_vars

\* One callback reported one element as not intersecting and another as
\* intersecting
C20_Witness ==
    /\ lastEvent.type = "notify"
    /\ \E e \in observed, g \in isVisible :
           /\ e \in BatchTargets(lastEvent.batch)
           /\ Hit(lastEvent.batch, g)
           /\ addCalls[g] = 1
           /\ addCalls[e] = 0
====
